---- MODULE Spec2Model ----
(***************************************************************************)
(* A model of the log analyser: the line parser (parser.py), the session   *)
(* transition graph (sequence_graph.py), the successor tree                *)
(* (successor_tree.py) and the frequency reporter (parser.py).             *)
(*                                                                         *)
(* Strings are sequences of one-character strings, so that strip, split,   *)
(* slicing and comparison are computed as Python computes them.            *)
(***************************************************************************)
EXTENDS Integers, Sequences, FiniteSets, TLC

VARIABLES
    content, event, estate,
    lines, logs, total, pstate,
    parsed_logs, window, graph, edges, gstate,
    root, branching, depth, threshold, tree, tstate,
    d, out, fstate

evars == <<content, event, estate>>
pvars == <<lines, logs, total, pstate>>
gvars == <<parsed_logs, window, graph, edges, gstate>>
tvars == <<root, branching, depth, threshold, tree, tstate>>
fvars == <<d, out, fstate>>

(***************************************************************************)
(* Bounds of the model.                                                    *)
(***************************************************************************)
MaxContentLen == 3
MaxFields == 5
MaxLines == 2
MaxLogs == 3
MaxWindow == 2
MaxEdges == 4
MaxBranching == 2
MaxDepth == 3
MaxThreshold == 2
MaxItems == 3

(***************************************************************************)
(* Characters and the str methods the code uses.                           *)
(***************************************************************************)
Chars == {"a", "7", "-", " "}

IsAlpha(ch) == ch = "a"

IsDigit(ch) == ch = "7"

IsSpace(ch) == ch = " "

\* s[i:] of Python with a 0-based i, on a 1-based sequence
SliceFrom(s, i) == SubSeq(s, i + 1, Len(s))

\* s[:i] of Python with a 0-based i
SliceTo(s, i) == SubSeq(s, 1, i)

RECURSIVE LStrip(_)
LStrip(s) ==
    IF s # <<>> /\ IsSpace(Head(s)) THEN LStrip(Tail(s)) ELSE s

RECURSIVE RStrip(_)
RStrip(s) ==
    IF s # <<>> /\ IsSpace(s[Len(s)]) THEN RStrip(SubSeq(s, 1, Len(s) - 1)) ELSE s

Strip(s) == RStrip(LStrip(s))

StringsUpTo(n) == UNION {[1..k -> Chars] : k \in 0..n}

(***************************************************************************)
(* parse_event: the name is the text before the first character the scan   *)
(* stops at, the data the stripped text after that character.              *)
(***************************************************************************)
StopsScanAlnum(ch) == ~(IsAlpha(ch) \/ IsDigit(ch))

StopsScan(ch) == ~IsAlpha(ch)

ParseEvent(c) ==
    LET s == Strip(c)
        stops == {i \in 0..(Len(s) - 1) : StopsScan(s[i + 1])}
    IN  IF stops = {} THEN [name |-> s, event_data |-> <<>>]
        ELSE LET i == CHOOSE j \in stops : \A k \in stops : j <= k
             IN  [name |-> SliceTo(s, i), event_data |-> Strip(SliceFrom(s, i + 1))]

NoEvent == [name |-> <<"?">>, event_data |-> <<"?">>]

(***************************************************************************)
(* The event specification: parse_event applied to every content string    *)
(* of at most MaxContentLen characters.                                    *)
(***************************************************************************)
ParserIdle ==
    /\ lines = <<>>
    /\ logs = <<>>
    /\ total = 0
    /\ pstate = "idle"

EventIdle ==
    /\ content = <<>>
    /\ event = NoEvent
    /\ estate = "idle"

GraphIdle ==
    /\ parsed_logs = <<>>
    /\ window = 0
    /\ graph = <<>>
    /\ edges = <<>>
    /\ gstate = "idle"

None == "None"

NoTree == [name |-> None, count |-> None, children |-> <<>>]

TreeIdle ==
    /\ root = None
    /\ branching = 0
    /\ depth = 0
    /\ threshold = 0
    /\ tree = NoTree
    /\ tstate = "idle"

FreqIdle ==
    /\ d = <<>>
    /\ out = <<>>
    /\ fstate = "idle"

InitEvent ==
    /\ content \in StringsUpTo(MaxContentLen)
    /\ event = NoEvent
    /\ estate = "input"
    /\ ParserIdle
    /\ GraphIdle
    /\ TreeIdle
    /\ FreqIdle

CallParseEvent ==
    /\ estate = "input"
    /\ event' = ParseEvent(content)
    /\ estate' = "parsed"
    /\ UNCHANGED <<content, pvars, gvars, tvars, fvars>>

NextEvent == CallParseEvent

(***************************************************************************)
(* parse_log_file.  A line is read, stripped, split on the first three     *)
(* "|" and turned into a Log, whose constructor converts the pid with      *)
(* int(); nothing catches the ValueError of that conversion.               *)
(***************************************************************************)
Pipe == "|"

FirstPipe(s) ==
    LET at == {i \in 1..Len(s) : s[i] = Pipe}
    IN  IF at = {} THEN 0 ELSE CHOOSE i \in at : \A j \in at : i <= j

\* s.split("|", n)
RECURSIVE Split(_, _)
Split(s, n) ==
    IF n = 0 \/ FirstPipe(s) = 0 THEN <<s>>
    ELSE <<SubSeq(s, 1, FirstPipe(s) - 1)>>
             \o Split(SubSeq(s, FirstPipe(s) + 1, Len(s)), n - 1)

\* whether int(s) returns: optional sign, then digits, whitespace around
IntParses(s) ==
    LET t == Strip(s)
        u == IF t # <<>> /\ Head(t) = "-" THEN Tail(t) ELSE t
    IN  u # <<>> /\ \A i \in 1..Len(u) : IsDigit(u[i])

DigitValue(ch) == IF ch = "7" THEN 7 ELSE 0

RECURSIVE Magnitude(_)
Magnitude(u) ==
    IF u = <<>> THEN 0 ELSE 10 * Magnitude(SubSeq(u, 1, Len(u) - 1)) + DigitValue(u[Len(u)])

\* int(s) where it returns
IntOf(s) ==
    LET t == Strip(s)
    IN  IF Head(t) = "-" THEN 0 - Magnitude(Tail(t)) ELSE Magnitude(t)

Log(timestamp, component_name, pid, ev) ==
    [timestamp |-> timestamp, component_name |-> component_name,
     pid |-> IntOf(pid), event |-> ev]

\* a dict as the sequence of its entries in insertion order
DictKeys(dict) == {dict[i].key : i \in DOMAIN dict}

DictGet(dict, k) == dict[CHOOSE i \in DOMAIN dict : dict[i].key = k].val

\* logs[component].append(log), the list created when the key is new
DictAppend(dict, k, x) ==
    IF k \in DictKeys(dict)
    THEN [i \in DOMAIN dict |->
             IF dict[i].key = k THEN [key |-> k, val |-> Append(dict[i].val, x)]
             ELSE dict[i]]
    ELSE Append(dict, [key |-> k, val |-> <<x>>])

JoinPipe(fs) ==
    LET RECURSIVE J(_)
        J(k) == IF k = 1 THEN fs[1] ELSE J(k - 1) \o <<Pipe>> \o fs[k]
    IN  J(Len(fs))

Fields == {<<"a">>, <<"7">>, <<" ", "7">>}

FileLines ==
    {<<>>, <<" ">>}
        \cup {JoinPipe(fs) : fs \in UNION {[1..n -> Fields] : n \in 1..MaxFields}}

InitParse ==
    /\ lines = <<>>
    /\ logs = <<>>
    /\ total = 0
    /\ pstate = "reading"
    /\ EventIdle
    /\ GraphIdle
    /\ TreeIdle
    /\ FreqIdle

ReadLine(raw) ==
    /\ pstate = "reading"
    /\ Len(lines) < MaxLines
    /\ lines' = Append(lines, raw)
    /\ LET line == Strip(raw)
           parts == Split(line, 3)
       IN  IF line = <<>> \/ Len(parts) # 4
           THEN UNCHANGED <<logs, total, pstate>>
           ELSE IF ~IntParses(parts[3])
           THEN /\ pstate' = "raised"
                /\ UNCHANGED <<logs, total>>
           ELSE /\ logs' = DictAppend(logs, parts[2],
                                Log(parts[1], parts[2], parts[3], ParseEvent(parts[4])))
                /\ total' = total + 1
                /\ UNCHANGED pstate
    /\ UNCHANGED <<evars, gvars, tvars, fvars>>

ReturnLogs ==
    /\ pstate = "reading"
    /\ pstate' = "returned"
    /\ UNCHANGED <<lines, logs, total, evars, gvars, tvars, fvars>>

NextParse ==
    \/ \E raw \in FileLines : ReadLine(raw)
    \/ ReturnLogs

(***************************************************************************)
(* Python's order on strings and its stable sort.                          *)
(***************************************************************************)
Ord(ch) ==
    CASE ch = " " -> 32
      [] ch = "-" -> 45
      [] ch = "0" -> 48
      [] ch = "1" -> 49
      [] ch = "2" -> 50
      [] ch = "7" -> 55
      [] ch = "a" -> 97
      [] ch = "b" -> 98
      [] ch = "|" -> 124

\* s < t on two strings
RECURSIVE StrLess(_, _)
StrLess(s, t) ==
    IF t = <<>> THEN FALSE
    ELSE IF s = <<>> THEN TRUE
    ELSE IF Head(s) # Head(t) THEN Ord(Head(s)) < Ord(Head(t))
    ELSE StrLess(Tail(s), Tail(t))

\* sorted(s), a stable sort: less[i][j] says that s[i] orders before s[j];
\* an element goes after those that order before it and after the earlier
\* ones that it does not order before
SortBy(s, less) ==
    LET Place(i) ==
            1 + Cardinality({j \in DOMAIN s : less[j][i] \/ (~less[i][j] /\ j < i)})
    IN  [p \in DOMAIN s |-> s[CHOOSE i \in DOMAIN s : Place(i) = p]]

RECURSIVE Concat(_)
Concat(ss) == IF ss = <<>> THEN <<>> ELSE Head(ss) \o Concat(Tail(ss))

(***************************************************************************)
(* build_sequence_graph.  The graph is a dict of Counters, each a sequence *)
(* of entries in insertion order.                                          *)
(***************************************************************************)
Components == {<<"a">>, <<"b">>}
Pids == {7, 77}
Timestamps == {<<"1", "0">>, <<"2">>}
Names == {"onStep", "onStop", "onSync"}
LogNames == {"onStep", "onStop"}

\* graph.get(node, Counter())
Successors(g, node) == IF node \in DictKeys(g) THEN DictGet(g, node) ELSE <<>>

\* the count of the edge, 0 when it is absent
Count(g, src, dst) ==
    IF dst \in DictKeys(Successors(g, src)) THEN DictGet(Successors(g, src), dst) ELSE 0

\* counter[dst] += 1
CounterIncrement(counter, dst) ==
    IF dst \in DictKeys(counter)
    THEN [i \in DOMAIN counter |->
             IF counter[i].key = dst THEN [key |-> dst, val |-> counter[i].val + 1]
             ELSE counter[i]]
    ELSE Append(counter, [key |-> dst, val |-> 1])

\* graph[src][dst] += 1
Increment(g, src, dst) ==
    IF src \in DictKeys(g)
    THEN [i \in DOMAIN g |->
             IF g[i].key = src THEN [key |-> src, val |-> CounterIncrement(g[i].val, dst)]
             ELSE g[i]]
    ELSE Append(g, [key |-> src, val |-> <<[key |-> dst, val |-> 1]>>])

\* every log of parsed_logs with the key it is stored under, in iteration
\* order; pos is its place in that order
AllLogs(pl) ==
    LET flat == Concat([i \in DOMAIN pl |->
                           [j \in DOMAIN pl[i].val |->
                               [component |-> pl[i].key, log |-> pl[i].val[j]]]])
    IN  [k \in DOMAIN flat |->
            [component |-> flat[k].component, log |-> flat[k].log, pos |-> k]]

SessionKeyComponentOnly(component, log) == <<component>>

SessionKey(component, log) == <<component, log.pid>>

\* the keys of sessions in insertion order
SessionKeys(all) ==
    LET RECURSIVE K(_)
        K(n) == IF n = 0 THEN <<>>
                ELSE LET key == SessionKey(all[n].component, all[n].log)
                     IN  IF \E m \in 1..(n - 1) :
                                SessionKey(all[m].component, all[m].log) = key
                         THEN K(n - 1) ELSE Append(K(n - 1), key)
    IN  K(Len(all))

SessionLogs(all, key) ==
    LET Member(e) == SessionKey(e.component, e.log) = key
    IN  SelectSeq(all, Member)

SessionUnsorted(s) == s

\* sessions[key].sort(key=lambda l: l.timestamp)
SessionSort(s) ==
    SortBy(s, [i \in DOMAIN s |-> [j \in DOMAIN s |->
                  StrLess(s[i].log.timestamp, s[j].log.timestamp)]])

\* the (i, i + window) pairs of one session, for i in range(len - window)
SessionPairs(s, w) ==
    [i \in 1..(IF Len(s) > w THEN Len(s) - w ELSE 0) |-> <<s[i], s[i + w]>>]

\* every pair the loops of build_sequence_graph visit, in order
AllPairs(pl, w) ==
    LET all == AllLogs(pl)
        keys == SessionKeys(all)
    IN  Concat([k \in DOMAIN keys |->
                   SessionPairs(SessionSort(SessionLogs(all, keys[k])), w)])

GraphOf(pairs) ==
    LET RECURSIVE G(_)
        G(n) == IF n = 0 THEN <<>>
                ELSE Increment(G(n - 1), pairs[n][1].log.event.name,
                               pairs[n][2].log.event.name)
    IN  G(Len(pairs))

InitGraph ==
    /\ parsed_logs = <<>>
    /\ window = 0
    /\ graph = <<>>
    /\ edges = <<>>
    /\ gstate = "parsing"
    /\ EventIdle
    /\ ParserIdle
    /\ TreeIdle
    /\ FreqIdle

LogCount(pl) == Len(AllLogs(pl))

\* parse_log_file storing one more record: logs[component].append(log)
StoreLog(component, pid, timestamp, name) ==
    /\ gstate = "parsing"
    /\ LogCount(parsed_logs) < MaxLogs
    /\ parsed_logs' = DictAppend(parsed_logs, component,
                          [timestamp |-> timestamp, component_name |-> component,
                           pid |-> pid, event |-> [name |-> name, event_data |-> <<>>]])
    /\ UNCHANGED <<window, graph, edges, gstate, evars, pvars, tvars, fvars>>

\* graph = build_sequence_graph(parsed_logs, window=w); edges records the
\* pair of records behind each increment
BuildSequenceGraph(w) ==
    /\ gstate = "parsing"
    /\ window' = w
    /\ edges' = AllPairs(parsed_logs, w)
    /\ graph' = GraphOf(AllPairs(parsed_logs, w))
    /\ gstate' = "built"
    /\ UNCHANGED <<parsed_logs, evars, pvars, tvars, fvars>>

NextGraph ==
    \/ \E c \in Components, p \in Pids, t \in Timestamps, n \in LogNames :
           StoreLog(c, p, t, n)
    \/ \E w \in 1..MaxWindow : BuildSequenceGraph(w)

(***************************************************************************)
(* build_successor_tree.                                                   *)
(***************************************************************************)
MostCommonUnsorted(counter) == counter

\* counter.most_common(): by count, largest first, equal counts in
\* insertion order
MostCommon(counter) ==
    SortBy(counter, [i \in DOMAIN counter |-> [j \in DOMAIN counter |->
                        counter[i].val > counter[j].val]])

NeverVisited(c, visited) == TRUE

NotVisited(c, visited) == c \notin visited

\* the candidates of _recurse: (c, cnt) of most_common() with
\* cnt >= threshold and c not in visited
Qualified(g, node, t, visited) ==
    LET Keep(e) == e.val >= t /\ NotVisited(e.key, visited)
    IN  SelectSeq(MostCommon(Successors(g, node)), Keep)

TopSliceOneMore(q, b) == SubSeq(q, 1, IF b + 1 < Len(q) THEN b + 1 ELSE Len(q))

\* qualified[:branching] for a branching >= 0
TopSlice(q, b) == SubSeq(q, 1, IF b < Len(q) THEN b ELSE Len(q))

RECURSIVE Recurse(_, _, _, _, _, _)
Recurse(g, node, remaining_depth, visited, b, t) ==
    LET top == TopSlice(Qualified(g, node, t, visited), b)
    IN  [i \in DOMAIN top |->
            [name |-> top[i].key,
             count |-> top[i].val,
             children |->
                 IF remaining_depth > 1
                 THEN Recurse(g, top[i].key, remaining_depth - 1,
                              visited \cup {top[i].key}, b, t)
                 ELSE <<>>]]

SuccessorTree(g, r, b, dp, t) ==
    [name |-> r, count |-> None, children |-> Recurse(g, r, dp, {r}, b, t)]

EdgeTotal(g) ==
    LET RECURSIVE Sum(_)
        Sum(c) == IF c = <<>> THEN 0 ELSE Head(c).val + Sum(Tail(c))
        RECURSIVE All(_)
        All(k) == IF k = 0 THEN 0 ELSE All(k - 1) + Sum(g[k].val)
    IN  All(Len(g))

InitTree ==
    /\ graph = <<>>
    /\ parsed_logs = <<>>
    /\ window = 0
    /\ edges = <<>>
    /\ gstate = "idle"
    /\ root = None
    /\ branching = 0
    /\ depth = 0
    /\ threshold = 0
    /\ tree = NoTree
    /\ tstate = "graph"
    /\ EventIdle
    /\ ParserIdle
    /\ FreqIdle

\* one more transition counted by build_sequence_graph: graph[src][dst] += 1
CountTransition(src, dst) ==
    /\ tstate = "graph"
    /\ EdgeTotal(graph) < MaxEdges
    /\ graph' = Increment(graph, src, dst)
    /\ UNCHANGED <<parsed_logs, window, edges, gstate, tvars, evars, pvars, fvars>>

\* tree = build_successor_tree(graph, r, branching=b, depth=dp, threshold=t)
BuildSuccessorTree(r, b, dp, t) ==
    /\ tstate = "graph"
    /\ root' = r
    /\ branching' = b
    /\ depth' = dp
    /\ threshold' = t
    /\ tree' = SuccessorTree(graph, r, b, dp, t)
    /\ tstate' = "built"
    /\ UNCHANGED <<gvars, evars, pvars, fvars>>

NextTree ==
    \/ \E src \in Names, dst \in Names : CountTransition(src, dst)
    \/ \E r \in Names, b \in 0..MaxBranching, dp \in 1..MaxDepth, t \in 1..MaxThreshold :
           BuildSuccessorTree(r, b, dp, t)

(***************************************************************************)
(* print_frequencies.  out is the sequence of lines it prints.             *)
(***************************************************************************)
FreqKeys == {<<"a">>, <<"a", "b">>, <<"b">>}

\* x < y on two (count, key) tuples
TupleLess(x, y) ==
    \/ x[1] < y[1]
    \/ x[1] = y[1] /\ StrLess(x[2], y[2])

NotReversed(arr) == arr

\* arr[::-1]
Reversed(arr) == [i \in DOMAIN arr |-> arr[Len(arr) + 1 - i]]

\* arr after the loop over d.items() and sorted(arr)[::-1]
FrequencyOrder(dict) ==
    LET arr == [i \in DOMAIN dict |-> <<Len(dict[i].val), dict[i].key>>]
    IN  Reversed(SortBy(arr, [i \in DOMAIN arr |-> [j \in DOMAIN arr |->
                                 TupleLess(arr[i], arr[j])]]))

ItemCount(dict) ==
    LET RECURSIVE Sum(_)
        Sum(k) == IF k = 0 THEN 0 ELSE Sum(k - 1) + Len(dict[k].val)
    IN  Sum(Len(dict))

InitFreq ==
    /\ d = <<>>
    /\ out = <<>>
    /\ fstate = "input"
    /\ EventIdle
    /\ ParserIdle
    /\ GraphIdle
    /\ TreeIdle

\* a key of the mapping with an empty list
AddKey(k) ==
    /\ fstate = "input"
    /\ k \notin DictKeys(d)
    /\ d' = Append(d, [key |-> k, val |-> <<>>])
    /\ UNCHANGED <<out, fstate, evars, pvars, gvars, tvars>>

\* one more item under a key, as parse_log_file stores it
AddItem(k) ==
    /\ fstate = "input"
    /\ ItemCount(d) < MaxItems
    /\ d' = DictAppend(d, k, "log")
    /\ UNCHANGED <<out, fstate, evars, pvars, gvars, tvars>>

\* print_frequencies(d): the first line divides by the sum of the counts
PrintFrequencies ==
    /\ fstate = "input"
    /\ LET arr == FrequencyOrder(d)
           sum == ItemCount(d)
       IN  IF arr # <<>> /\ sum = 0
           THEN /\ out' = <<>>
                /\ fstate' = "raised"
           ELSE /\ out' = [i \in DOMAIN arr |->
                              [key |-> arr[i][2], times |-> arr[i][1], of |-> sum]]
                /\ fstate' = "printed"
    /\ UNCHANGED <<d, evars, pvars, gvars, tvars>>

NextFreq ==
    \/ \E k \in FreqKeys : AddKey(k)
    \/ \E k \in FreqKeys : AddItem(k)
    \/ PrintFrequencies

vars == <<evars, pvars, gvars, tvars, fvars>>

(***************************************************************************)
(* Claims about the graph builder.                                         *)
(***************************************************************************)
SameSession(x, y) == x.component = y.component /\ x.log.pid = y.log.pid

\* x comes before y in a session ordered by timestamp, ties in file order
Before(x, y) ==
    \/ StrLess(x.log.timestamp, y.log.timestamp)
    \/ x.log.timestamp = y.log.timestamp /\ x.pos < y.pos

\* the index of x in its session
Rank(all, x) ==
    Cardinality({k \in DOMAIN all : SameSession(all[k], x) /\ Before(all[k], x)})

TransitionPairs(all, w, a, b) ==
    {ij \in (DOMAIN all) \X (DOMAIN all) :
        /\ SameSession(all[ij[1]], all[ij[2]])
        /\ Rank(all, all[ij[2]]) = Rank(all, all[ij[1]]) + w
        /\ all[ij[1]].log.event.name = a
        /\ all[ij[2]].log.event.name = b}

SessionSize(all, x) == Cardinality({k \in DOMAIN all : SameSession(all[k], x)})

\* C1: graph[a][b] is the number of index pairs (i, i + window) inside one
\* (component, pid) session, ordered by timestamp with ties in file order,
\* whose records are named a and b; no entry of the graph has a zero count.
C1_GraphCountsSessionPairs ==
    gstate = "built" =>
        /\ \A a \in Names, b \in Names :
               Count(graph, a, b)
                   = Cardinality(TransitionPairs(AllLogs(parsed_logs), window, a, b))
        /\ \A i \in DOMAIN graph :
               /\ graph[i].val # <<>>
               /\ \A j \in DOMAIN graph[i].val : graph[i].val[j].val >= 1
               /\ \A j, k \in DOMAIN graph[i].val :
                      graph[i].val[j].key = graph[i].val[k].key => j = k
        /\ \A i, k \in DOMAIN graph : graph[i].key = graph[k].key => i = k

\* a build in which the sort reorders a session, an edge is counted and a
\* session too short for the window contributes none
C1_Witness ==
    /\ gstate = "built"
    /\ edges # <<>>
    /\ LET all == AllLogs(parsed_logs)
       IN  /\ \E i, j \in DOMAIN all :
                  /\ SameSession(all[i], all[j])
                  /\ i < j
                  /\ StrLess(all[j].log.timestamp, all[i].log.timestamp)
           /\ \E i \in DOMAIN all : SessionSize(all, all[i]) < window + 1

\* C2: every increment of an edge comes from two records of the same
\* component and the same pid, and the counts of the graph are exactly these
\* increments.
C2_EdgesStayInsideSessions ==
    gstate = "built" =>
        /\ \A k \in DOMAIN edges :
               /\ edges[k][1].component = edges[k][2].component
               /\ edges[k][1].log.pid = edges[k][2].log.pid
               /\ edges[k][1].pos # edges[k][2].pos
        /\ \A a \in Names, b \in Names :
               Count(graph, a, b)
                   = Cardinality({k \in DOMAIN edges :
                                     /\ edges[k][1].log.event.name = a
                                     /\ edges[k][2].log.event.name = b})

\* a build over a component whose list interleaves two pids, with an edge
C2_Witness ==
    /\ gstate = "built"
    /\ edges # <<>>
    /\ \E e \in DOMAIN parsed_logs :
           LET l == parsed_logs[e].val
           IN  \E i, j, k \in DOMAIN l :
                   /\ i < j /\ j < k
                   /\ l[i].pid = l[k].pid
                   /\ l[i].pid # l[j].pid
                   /\ ~StrLess(l[j].timestamp, l[i].timestamp)
                   /\ ~StrLess(l[k].timestamp, l[j].timestamp)

SpecEvent == InitEvent /\ [][NextEvent]_vars

SpecParse == InitParse /\ [][NextParse]_vars

SpecGraph == InitGraph /\ [][NextGraph]_vars

SpecTree == InitTree /\ [][NextTree]_vars

SpecFreq == InitFreq /\ [][NextFreq]_vars

(***************************************************************************)
(* Claims about the successor tree.                                        *)
(***************************************************************************)
\* every node of t with the names on the path from the root down to it
RECURSIVE NodesUnder(_, _)
NodesUnder(t, prefix) ==
    LET path == Append(prefix, t.name)
    IN  {[path |-> path, name |-> t.name, children |-> t.children]}
            \cup UNION {NodesUnder(t.children[i], path) : i \in DOMAIN t.children}

Nodes(t) == NodesUnder(t, <<>>)

DepthOf(n) == Len(n.path) - 1

OnPath(n) == {n.path[i] : i \in DOMAIN n.path}

ChildNames(n) == {n.children[i].name : i \in DOMAIN n.children}

\* the successors of n that meet the threshold and are not on its path
Candidates(n) ==
    {s \in Names : Count(graph, n.name, s) >= threshold /\ s \notin OnPath(n)}

\* the sum of the counts of all outgoing edges of a node
Total(g, node) ==
    LET RECURSIVE Sum(_)
        Sum(c) == IF c = <<>> THEN 0 ELSE Head(c).val + Sum(Tail(c))
    IN  Sum(Successors(g, node))

\* relative thresholds in [0, 1], as <<numerator, denominator>>
RelativeThresholds == {<<0, 1>>, <<1, 4>>, <<1, 2>>, <<3, 4>>, <<1, 1>>}

\* C3: every node has at most branching children and lies at a depth of at
\* most depth below the root.
C3_TreeIsBounded ==
    tstate = "built" =>
        \A n \in Nodes(tree) :
            /\ Len(n.children) <= branching
            /\ DepthOf(n) <= depth

\* a tree cut by both caps: a node with branching children and a candidate
\* left over, and a node at the depth cap that still has a candidate
C3_Witness ==
    /\ tstate = "built"
    /\ \E n \in Nodes(tree) :
           /\ Len(n.children) = branching
           /\ Cardinality(Candidates(n)) > branching
    /\ \E n \in Nodes(tree) :
           /\ DepthOf(n) = depth
           /\ Candidates(n) # {}

\* C4: no name occurs twice on a path from the root to a node.
C4_NoNameRepeatsOnPath ==
    tstate = "built" =>
        \A n \in Nodes(tree) :
            \A i, j \in DOMAIN n.path : n.path[i] = n.path[j] => i = j

\* a tree over a graph with a cycle back to an ancestor, in which one name
\* sits in two branches neither of which contains the other
C4_Witness ==
    /\ tstate = "built"
    /\ \E n \in Nodes(tree) :
           /\ DepthOf(n) < depth
           /\ \E s \in OnPath(n) : Count(graph, n.name, s) >= threshold
    /\ \E n, m \in Nodes(tree) :
           /\ n.name = m.name
           /\ Len(n.path) < Len(m.path)
           /\ SubSeq(m.path, 1, Len(n.path)) # n.path

\* C10: each child's count is the graph's edge count, children are listed
\* in non-increasing order of count, and they are the top branching
\* candidates: a candidate is left out only below every child, and only of
\* an expanded node that already has branching children.
C10_ChildrenAreTopCandidates ==
    tstate = "built" =>
        \A n \in Nodes(tree) :
            LET kids == n.children
            IN  /\ \A i \in DOMAIN kids :
                       kids[i].count = Count(graph, n.name, kids[i].name)
                /\ \A i, j \in DOMAIN kids : i < j => kids[i].count >= kids[j].count
                /\ \A s \in Candidates(n) \ ChildNames(n) :
                       /\ \A i \in DOMAIN kids :
                              kids[i].count >= Count(graph, n.name, s)
                       /\ DepthOf(n) < depth => Len(kids) = branching

\* a node whose children were chosen against a candidate with a smaller
\* count that was counted first
C10_Witness ==
    /\ tstate = "built"
    /\ branching >= 1
    /\ \E n \in Nodes(tree) :
           /\ n.children # <<>>
           /\ \E s \in Candidates(n) \ ChildNames(n) :
                  /\ Count(graph, n.name, s)
                         < n.children[Len(n.children)].count
                  /\ Successors(graph, n.name)[1].key = s

\* C5: a successor is placed only if cnt >= threshold and its share
\* cnt / total of the node's outgoing count is at least relative_threshold.
\* build_successor_tree takes no relative threshold, so the tree it returns
\* is the tree for every relative threshold.
C5_ChildrenMeetRelativeThreshold ==
    tstate = "built" =>
        \A rt \in RelativeThresholds :
            \A n \in Nodes(tree) :
                \A i \in DOMAIN n.children :
                    /\ n.children[i].count >= threshold
                    /\ n.children[i].count * rt[2]
                           >= rt[1] * Total(graph, n.name)

\* C6: in inverted mode a successor qualifies iff cnt < threshold and
\* cnt / total < relative_threshold, so that no successor qualifies in both
\* modes and one at cnt = threshold qualifies in the non-inverted mode only.
\* build_successor_tree has one mode, so the tree it returns is the tree the
\* inverted mode gets.
C6_InvertedTreeHoldsOnlyRareSuccessors ==
    tstate = "built" =>
        \A rt \in RelativeThresholds :
            \A n \in Nodes(tree) :
                \A i \in DOMAIN n.children :
                    /\ n.children[i].count < threshold
                    /\ n.children[i].count * rt[2]
                           < rt[1] * Total(graph, n.name)

(***************************************************************************)
(* Claims about the parser and the frequency reporter.                     *)
(***************************************************************************)
\* a line with four fields whose pid is an integer
WellFormed(raw) ==
    /\ Strip(raw) # <<>>
    /\ Len(Split(Strip(raw), 3)) = 4
    /\ IntParses(Split(Strip(raw), 3)[3])

\* C7: a line with four fields whose pid is not an integer is discarded: no
\* exception escapes parse_log_file, and every well-formed line of the file
\* is returned and counted.
C7_BadPidLineIsDiscarded ==
    /\ pstate # "raised"
    /\ pstate = "returned" =>
           /\ total = Cardinality({i \in DOMAIN lines : WellFormed(lines[i])})
           /\ ItemCount(logs) = total

ListsEveryKeyOnce ==
    /\ Len(out) = Len(d)
    /\ {out[i].key : i \in DOMAIN out} = DictKeys(d)
    /\ \A i \in DOMAIN out : out[i].times = Len(DictGet(d, out[i].key))

====
